---- MODULE Spec2Model ----
(***************************************************************************)
(* PostgreSQL HA/DR demo API (src/api/app).                                *)
(*                                                                         *)
(* Two machines are described here.                                        *)
(*   SpecBackups  the backup-status translator get_backup_status          *)
(*                (routers/backups.py) applied to every output of the      *)
(*                pgbackrest subprocess within the bounds below.           *)
(*   Spec         the server: the lifespan hook, the module-level          *)
(*                connection pool (db/connection.py) and concurrently      *)
(*                handled requests.                                        *)
(*                                                                         *)
(* Conventions.  A Python Optional is a sequence of length 0 (None) or 1.  *)
(* A Python dict is a function whose DOMAIN is the set of keys present.    *)
(* A Python str that the code builds or trims is a sequence of tokens.     *)
(***************************************************************************)
EXTENDS Integers, Sequences, FiniteSets, TLC

(***************************************************************************)
(* Bounds of the model.                                                    *)
(***************************************************************************)
\* longest backup list the tool prints
MaxBackups == 2
\* largest Unix timestamp the tool prints (0..MaxTime)
MaxTime == 1
\* largest stanza status code the tool prints (0..MaxCode)
MaxCode == 3
\* largest exit code of the subprocess (-1..MaxExit)
MaxExit == 1
\* longest standard-error text, in characters
MaxStderr == 2

(***************************************************************************)
(* Python values.                                                          *)
(***************************************************************************)
None == << >>

Some(v) == << v >>

\* d.get(k, default)
Get(d, k, default) == IF k \in DOMAIN d THEN d[k] ELSE default

\* the literal {} used as a default of dict.get
EmptyDict == [k \in {} |-> 0]

\* the dict d without the key k (used to build the tool's outputs)
Without(d, k) == [x \in DOMAIN d \ {k} |-> d[x]]

\* str.strip(): drop leading and trailing whitespace
RECURSIVE LStrip(_)
LStrip(s) == IF s # << >> /\ Head(s) = " " THEN LStrip(Tail(s)) ELSE s

RECURSIVE RStrip(_)
RStrip(s) ==
    IF s # << >> /\ s[Len(s)] = " " THEN RStrip(SubSeq(s, 1, Len(s) - 1)) ELSE s

Strip(s) == RStrip(LStrip(s))

\* sequences over S of length at most n
SeqsUpTo(S, n) == UNION {[1..k -> S] : k \in 0..n}

(***************************************************************************)
(* What the pgbackrest executable can print: the environment of            *)
(* get_backup_status.                                                      *)
(***************************************************************************)
Times == 0..MaxTime

Codes == 0..MaxCode

BackupTypes == {"full", "diff", "incr"}

\* a backup entry with every key present
BaseEntry(ty, stop) ==
    [label |-> "20250115-120000F", type |-> ty,
     timestamp |-> [start |-> 0, stop |-> stop],
     info |-> [size |-> 100, repository |-> [size |-> 50]]]

\* BaseEntry with one key (or one nested key) left out
OmissionsOf(b) ==
    {Without(b, "label"), Without(b, "type"), Without(b, "timestamp"),
     [b EXCEPT !.timestamp = Without(@, "start")],
     [b EXCEPT !.timestamp = Without(@, "stop")],
     Without(b, "info"),
     [b EXCEPT !.info = Without(@, "size")],
     [b EXCEPT !.info = Without(@, "repository")],
     [b EXCEPT !.info.repository = EmptyDict]}

EntrySet ==
    {BaseEntry(ty, t) : ty \in BackupTypes, t \in Times}
        \cup OmissionsOf(BaseEntry("full", MaxTime))
        \cup {[BaseEntry("diff", MaxTime) EXCEPT !.timestamp = Without(@, "stop")]}
        \cup {EmptyDict}

BackupLists == SeqsUpTo(EntrySet, MaxBackups)

ToolMessage == << "stanza message" >>

StatusSet ==
    UNION {{[code |-> c, message |-> ToolMessage], [code |-> c]} : c \in Codes}
        \cup {[message |-> ToolMessage], EmptyDict}

ArchiveLists ==
    {<< >>, << EmptyDict >>,
     << [min |-> "000000010000000000000001", max |-> "000000010000000000000010"] >>}

\* the stanza block with the keys whose Optional is present
Block(st, bk, ar) ==
    LET keys == (IF st # None THEN {"status"} ELSE {})
                  \cup (IF bk # None THEN {"backup"} ELSE {})
                  \cup (IF ar # None THEN {"archive"} ELSE {})
    IN  [k \in keys |-> CASE k = "status" -> st[1]
                          [] k = "backup" -> bk[1]
                          [] k = "archive" -> ar[1]]

Optional(S) == {None} \cup {Some(x) : x \in S}

\* backup lists of at most one entry
ShortBackupLists == SeqsUpTo(EntrySet, 1)

\* every status object and archive list next to a short backup list, and every
\* backup list next to a status of code 0 or no status at all
StanzaBlocks ==
    {Block(st, bk, ar) : st \in Optional(StatusSet), bk \in Optional(ShortBackupLists),
                         ar \in Optional(ArchiveLists)}
        \cup {Block(st, Some(bk), None) :
                 st \in {None, Some([code |-> 0, message |-> ToolMessage])},
                 bk \in BackupLists}

\* a parsed JSON document: an array of stanza blocks, or a number
JsonArray(items) == [t |-> "array", items |-> items, n |-> 0]

JsonNumber(n) == [t |-> "number", items |-> << >>, n |-> n]

Payloads ==
    {JsonArray(<< >>)} \cup {JsonArray(<< b >>) : b \in StanzaBlocks}
        \cup {JsonNumber(0), JsonNumber(5)}

\* standard output: the text of a JSON document, text that is not JSON, or nothing
StdoutJson(v) == [text |-> "json", value |-> v]

StdoutGarbage == [text |-> "garbage", value |-> JsonNumber(0)]

StdoutEmpty == [text |-> "empty", value |-> JsonNumber(0)]

SampleBlock ==
    Block(Some([code |-> 0, message |-> << "ok" >>]),
          Some(<< BaseEntry("full", MaxTime) >>), Some(<< >>))

StdoutSamples ==
    {StdoutGarbage, StdoutEmpty, StdoutJson(JsonArray(<< >>)),
     StdoutJson(JsonArray(<< SampleBlock >>)), StdoutJson(JsonNumber(5))}

StderrTexts == SeqsUpTo({" ", "e"}, MaxStderr)

ExitCodes == (0 - 1)..MaxExit

ToolExit(rc, out, err) ==
    [kind |-> "exit", returncode |-> rc, stdout |-> out, stderr |-> err]

ToolNotFound == [kind |-> "not_found", returncode |-> 0, stdout |-> StdoutEmpty, stderr |-> << >>]

ToolTimeout == [kind |-> "timeout", returncode |-> 0, stdout |-> StdoutEmpty, stderr |-> << >>]

\* exit 0 with every standard output; a failing exit with every standard-error
\* text and a sample of standard outputs; executable missing; executable hanging
ToolSet ==
    {ToolNotFound, ToolTimeout}
        \cup {ToolExit(0, out, << >>) :
                out \in {StdoutGarbage, StdoutEmpty} \cup {StdoutJson(v) : v \in Payloads}}
        \cup {ToolExit(rc, out, err) :
                rc \in ExitCodes \ {0}, out \in StdoutSamples, err \in StderrTexts}

(***************************************************************************)
(* routers/backups.py                                                      *)
(***************************************************************************)
Stanza == "pgha-dev-postgres"

\* datetime.fromtimestamp(ts, tz=UTC)
Datetime(ts) == [epoch |-> ts, tz |-> "UTC"]

\* ts is an Optional integer
parse_pgbackrest_timestamp(ts) ==
    IF ts = None THEN None ELSE Some(Datetime(ts[1]))

\* d.get(k): None when the key is absent
GetOpt(d, k) == IF k \in DOMAIN d THEN Some(d[k]) ELSE None

\* subprocess.run(["pgbackrest", ...], capture_output=True, text=True, timeout=30)
subprocess_run(t) ==
    [raised |-> CASE t.kind = "not_found" -> "FileNotFoundError"
                  [] t.kind = "timeout" -> "TimeoutExpired"
                  [] OTHER -> "",
     returncode |-> t.returncode, stdout |-> t.stdout, stderr |-> t.stderr]

\* json.loads
json_loads(out) ==
    IF out.text = "json" THEN [ok |-> TRUE, value |-> out.value]
    ELSE [ok |-> FALSE, value |-> JsonNumber(0)]

\* Python truth value of a parsed document (not info)
Truthy(v) == IF v.t = "array" THEN v.items # << >> ELSE v.n # 0

\* BackupResponse(...): the fields a call leaves out keep their default None
BackupResponse(status, status_message, backups, wal_archive, last_full, last_diff) ==
    [stanza |-> Stanza, status |-> status, status_message |-> status_message,
     backups |-> backups, wal_archive |-> wal_archive,
     last_full_backup |-> last_full, last_diff_backup |-> last_diff,
     timestamp |-> "now"]

DegradedResponse(status, status_message) ==
    BackupResponse(status, Some(status_message), << >>, None, None, None)

Http(code, body) == [code |-> code, body |-> body]

\* the message without the strip(): f"pgBackRest error: {result.stderr or 'Unknown error'}"
UnavailableMessageUnstripped(stderr) ==
    << "pgBackRest error: " >>
        \o (IF stderr # << >> THEN stderr ELSE << "Unknown error" >>)

\* f"pgBackRest error: {result.stderr.strip() or 'Unknown error'}"
UnavailableMessage(stderr) ==
    << "pgBackRest error: " >>
        \o (IF Strip(stderr) # << >> THEN Strip(stderr) ELSE << "Unknown error" >>)

\* the except clauses without the one for FileNotFoundError
ExceptionResponseNoFileNotFound(exc) ==
    CASE exc = "TimeoutExpired" ->
           Http(200, DegradedResponse("timeout", << "pgBackRest command timed out" >>))
      [] exc = "JSONDecodeError" ->
           Http(200, DegradedResponse("parse_error",
                        << "Failed to parse pgBackRest output: ", "Expecting value" >>))
      [] OTHER ->
           Http(500, [detail |-> << "Failed to get backup status: ", exc >>])

\* the except clauses of get_backup_status
ExceptionResponse(exc) ==
    CASE exc = "TimeoutExpired" ->
           Http(200, DegradedResponse("timeout", << "pgBackRest command timed out" >>))
      [] exc = "FileNotFoundError" ->
           Http(200, DegradedResponse("not_installed",
                        << "pgBackRest is not installed on this system" >>))
      [] exc = "JSONDecodeError" ->
           Http(200, DegradedResponse("parse_error",
                        << "Failed to parse pgBackRest output: ", "Expecting value" >>))
      [] OTHER ->
           Http(500, [detail |-> << "Failed to get backup status: ", exc >>])

\* the mapping with the branches of 1 and 2 exchanged
StatusOfCodeSwapped(status_code) ==
    IF status_code = 0 THEN "ok"
    ELSE IF status_code = 1 THEN "no_backup"
    ELSE IF status_code = 2 THEN "missing_stanza"
    ELSE "error"

\* Map status code to string
StatusOfCode(status_code) ==
    IF status_code = 0 THEN "ok"
    ELSE IF status_code = 1 THEN "missing_stanza"
    ELSE IF status_code = 2 THEN "no_backup"
    ELSE "error"

\* BackupInfo(label=..., type=..., ...) of one entry of the backup list
ParseBackup(backup) ==
    [label |-> Get(backup, "label", "unknown"),
     type |-> Get(backup, "type", "unknown"),
     start_time |-> parse_pgbackrest_timestamp(GetOpt(Get(backup, "timestamp", EmptyDict), "start")),
     stop_time |-> parse_pgbackrest_timestamp(GetOpt(Get(backup, "timestamp", EmptyDict), "stop")),
     size_bytes |-> GetOpt(Get(backup, "info", EmptyDict), "size"),
     database_size_bytes |->
         GetOpt(Get(Get(backup, "info", EmptyDict), "repository", EmptyDict), "size")]

\* the loop skipping the entries that have no label
RECURSIVE ParseBackupsLabelled(_)
ParseBackupsLabelled(list) ==
    IF list = << >> THEN << >>
    ELSE IF "label" \in DOMAIN Head(list)
    THEN << ParseBackup(Head(list)) >> \o ParseBackupsLabelled(Tail(list))
    ELSE ParseBackupsLabelled(Tail(list))

\* backups.append(backup_info) for every entry, in the order of the input
RECURSIVE ParseBackups(_)
ParseBackups(list) ==
    IF list = << >> THEN << >>
    ELSE << ParseBackup(Head(list)) >> \o ParseBackups(Tail(list))

\* the comparison dropped: the entry seen last wins
LastSeen(stop_time, last) == TRUE

\* last is None or backup_info.stop_time > last
Later(stop_time, last) == last = None \/ stop_time[1].epoch > last[1].epoch

\* Track latest backups by type: one iteration of the loop
TrackLatest(acc, backup_info) ==
    IF backup_info.type = "full" /\ backup_info.stop_time # None
    THEN IF Later(backup_info.stop_time, acc.last_full)
         THEN [acc EXCEPT !.last_full = backup_info.stop_time] ELSE acc
    ELSE IF backup_info.type = "diff" /\ backup_info.stop_time # None
    THEN IF Later(backup_info.stop_time, acc.last_diff)
         THEN [acc EXCEPT !.last_diff = backup_info.stop_time] ELSE acc
    ELSE acc

\* the loop over the parsed backups, first to last
RECURSIVE TrackAll(_, _)
TrackAll(acc, infos) ==
    IF infos = << >> THEN acc
    ELSE TrackAll(TrackLatest(acc, Head(infos)), Tail(infos))

\* Parse WAL archive info
ParseArchive(archive_info) ==
    IF archive_info # << >>
    THEN Some([min_wal |-> GetOpt(archive_info[1], "min"),
               max_wal |-> GetOpt(archive_info[1], "max")])
    ELSE None

\* a report whose status looks at the records: ok needs at least one backup
StanzaReportByContents(stanza_info) ==
    LET status_code == Get(Get(stanza_info, "status", EmptyDict), "code", 99)
        status_message == Get(Get(stanza_info, "status", EmptyDict), "message", << "Unknown" >>)
        backups == ParseBackups(Get(stanza_info, "backup", << >>))
        status == IF status_code = 0 /\ backups = << >> THEN "no_backup"
                  ELSE StatusOfCode(status_code)
        latest == TrackAll([last_full |-> None, last_diff |-> None], backups)
    IN  BackupResponse(status,
                       IF status # "ok" THEN Some(status_message) ELSE None,
                       backups,
                       ParseArchive(Get(stanza_info, "archive", << >>)),
                       latest.last_full, latest.last_diff)

\* the report of a stanza block (info[0])
StanzaReport(stanza_info) ==
    LET status_code == Get(Get(stanza_info, "status", EmptyDict), "code", 99)
        status_message == Get(Get(stanza_info, "status", EmptyDict), "message", << "Unknown" >>)
        status == StatusOfCode(status_code)
        backups == ParseBackups(Get(stanza_info, "backup", << >>))
        latest == TrackAll([last_full |-> None, last_diff |-> None], backups)
    IN  BackupResponse(status,
                       IF status # "ok" THEN Some(status_message) ELSE None,
                       backups,
                       ParseArchive(Get(stanza_info, "archive", << >>)),
                       latest.last_full, latest.last_diff)

\* the handler, given what subprocess.run returned or raised
get_backup_status(result) ==
    IF result.raised # "" THEN ExceptionResponse(result.raised)
    ELSE IF result.returncode # 0
    THEN Http(200, DegradedResponse("unavailable", UnavailableMessage(result.stderr)))
    ELSE LET parsed == json_loads(result.stdout) IN
         IF ~parsed.ok THEN ExceptionResponse("JSONDecodeError")
         ELSE IF ~Truthy(parsed.value)
         THEN Http(200, DegradedResponse("no_stanza", << "No stanza information available" >>))
         ELSE IF parsed.value.t # "array" THEN ExceptionResponse("TypeError")
         ELSE Http(200, StanzaReport(parsed.value.items[1]))

(***************************************************************************)
(* The translator as a machine: a GET /backups request arrives, the        *)
(* subprocess runs, the handler answers.                                   *)
(***************************************************************************)
VARIABLES bpc, tool, result, response, calls

bvars == << bpc, tool, result, response, calls >>

\* the server's state (see "The server" below); it stays put under SpecBackups
VARIABLES lifespan, pool, created, open, inuse, req

svars == << lifespan, pool, created, open, inuse, req >>

\* the state of one GET /metrics request (see "get_metrics" below)
VARIABLES mpc, answers, fetched, issued, mresponse

mvars == << mpc, answers, fetched, issued, mresponse >>

\* the items table and the requests on it (see "The items handlers" below)
VARIABLES table, serial, now, ireq

ivars == << table, serial, now, ireq >>

vars ==
    << bpc, tool, result, response, calls, lifespan, pool, created, open, inuse, req,
       mpc, answers, fetched, issued, mresponse, table, serial, now, ireq >>

NoResult == subprocess_run(ToolNotFound)

NoResponse == Http(0, << >>)

BInit ==
    /\ bpc = "idle"
    /\ tool = ToolNotFound
    /\ result = NoResult
    /\ response = NoResponse
    /\ calls = 0

\* the request arrives; t is what the executable will do this time
BackupsArrive ==
    /\ bpc = "idle"
    /\ \E t \in ToolSet : tool' = t
    /\ bpc' = "run"
    /\ result' = NoResult
    /\ response' = NoResponse
    /\ calls' = 0
    /\ UNCHANGED << svars, mvars, ivars >>

\* where control goes after subprocess.run returned or raised
AfterRun(res) == "translate"

BackupsRun ==
    /\ bpc = "run"
    /\ result' = subprocess_run(tool)
    /\ calls' = calls + 1
    /\ bpc' = AfterRun(subprocess_run(tool))
    /\ UNCHANGED << tool, response >>
    /\ UNCHANGED << svars, mvars, ivars >>

BackupsRespond ==
    /\ bpc = "translate"
    /\ response' = get_backup_status(result)
    /\ bpc' = "done"
    /\ UNCHANGED << tool, result, calls >>
    /\ UNCHANGED << svars, mvars, ivars >>

BNext == BackupsArrive \/ BackupsRun \/ BackupsRespond


(***************************************************************************)
(* Properties of the translator (checked under SpecBackups).               *)
(***************************************************************************)
BDone == bpc = "done"

ExitedZero == tool.kind = "exit" /\ tool.returncode = 0

\* the subprocess exited 0 and printed a non-empty JSON array
PrintedBlock ==
    /\ ExitedZero
    /\ tool.stdout.text = "json"
    /\ tool.stdout.value.t = "array"
    /\ tool.stdout.value.items # << >>

\* the first stanza block and its backup list, as printed
PrintedStanza == tool.stdout.value.items[1]

PrintedBackups == Get(PrintedStanza, "backup", << >>)

\* a 200 answer carrying a degraded report of the given status
IsDegraded(resp, status) ==
    /\ resp.code = 200
    /\ resp.body.status = status
    /\ resp.body.backups = << >>
    /\ resp.body.status_message # None
    /\ resp.body.status_message[1] # << >>
    /\ resp.body.wal_archive = None
    /\ resp.body.last_full_backup = None
    /\ resp.body.last_diff_backup = None

\* C1: executable not found, timeout, exit 0 with text that is not JSON and exit 0
\* with an empty JSON array are answered 200 with status not_installed, timeout,
\* parse_error and no_stanza, an empty backups list, a non-empty message and no
\* wal_archive, last_full_backup or last_diff_backup.
C1_DegradedOutcomes ==
    BDone =>
        /\ tool.kind = "not_found" => IsDegraded(response, "not_installed")
        /\ tool.kind = "timeout" => IsDegraded(response, "timeout")
        /\ (ExitedZero /\ tool.stdout.text # "json") => IsDegraded(response, "parse_error")
        /\ (ExitedZero /\ tool.stdout = StdoutJson(JsonArray(<< >>)))
               => IsDegraded(response, "no_stanza")

C1_Witness ==
    /\ BDone
    /\ tool.kind = "not_found"
    /\ response.code = 200
    /\ response.body.status = "not_installed"

\* the positions of the characters of s that are not whitespace
Inked(s) == {i \in 1..Len(s) : s[i] # " "}

Least(S) == CHOOSE x \in S : \A y \in S : x <= y

Greatest(S) == CHOOSE x \in S : \A y \in S : x >= y

\* C2: a non-zero exit code is answered 200 with status unavailable and an empty
\* backups list whatever standard output holds; the message is built from the
\* trimmed standard-error text, or from "Unknown error" when that text is empty or
\* whitespace only.
C2_NonZeroExit ==
    (BDone /\ tool.kind = "exit" /\ tool.returncode # 0) =>
        /\ response.code = 200
        /\ response.body.status = "unavailable"
        /\ response.body.backups = << >>
        /\ response.body.status_message =
              Some(<< "pgBackRest error: " >> \o
                   (IF Inked(tool.stderr) = {} THEN << "Unknown error" >>
                    ELSE SubSeq(tool.stderr, Least(Inked(tool.stderr)),
                                Greatest(Inked(tool.stderr)))))

C2_Witness ==
    /\ BDone
    /\ tool.kind = "exit"
    /\ tool.returncode # 0
    /\ tool.stdout.text = "garbage"
    /\ tool.stderr = << " ", " " >>
    /\ response.body.status = "unavailable"

\* the status code the first stanza block carries, 99 when there is none
PrintedCode ==
    IF "status" \in DOMAIN PrintedStanza /\ "code" \in DOMAIN PrintedStanza.status
    THEN PrintedStanza.status.code ELSE 99

PrintedMessageGiven ==
    "status" \in DOMAIN PrintedStanza /\ "message" \in DOMAIN PrintedStanza.status

\* C3: with exit 0 and a first stanza block of status code c (99 when absent) the
\* status is ok for 0, missing_stanza for 1, no_backup for 2 and error otherwise; the
\* message is absent when the status is ok and otherwise is the tool's message, or
\* "Unknown" when the tool gives none.
C3_StatusMapping ==
    (BDone /\ PrintedBlock) =>
        /\ response.code = 200
        /\ response.body.status =
              CASE PrintedCode = 0 -> "ok"
                [] PrintedCode = 1 -> "missing_stanza"
                [] PrintedCode = 2 -> "no_backup"
                [] OTHER -> "error"
        /\ response.body.status = "ok" => response.body.status_message = None
        /\ response.body.status # "ok" =>
              response.body.status_message =
                  Some(IF PrintedMessageGiven THEN PrintedStanza.status.message
                       ELSE << "Unknown" >>)

C3_Witness ==
    /\ BDone
    /\ PrintedBlock
    /\ "status" \notin DOMAIN PrintedStanza
    /\ response.body.status = "error"
    /\ response.body.status_message = Some(<< "Unknown" >>)

\* the stop times of the entries of list that have type ty and a stop time
StopsOf(list, ty) ==
    {list[i].timestamp.stop :
        i \in {j \in 1..Len(list) :
                 /\ "type" \in DOMAIN list[j]
                 /\ list[j].type = ty
                 /\ "timestamp" \in DOMAIN list[j]
                 /\ "stop" \in DOMAIN list[j].timestamp}}

\* the greatest of them as an instant, None when there is none
LatestStop(list, ty) ==
    IF StopsOf(list, ty) = {} THEN None
    ELSE Some(Datetime(Greatest(StopsOf(list, ty))))

Permuted(list, p) == [i \in 1..Len(list) |-> list[p[i]]]

\* C4: last_full_backup and last_diff_backup are the greatest stop_time over the
\* entries of type full, respectively diff, that have a stop_time, absent exactly
\* when there is no such entry; every permutation of the list gives the same two
\* values.
C4_LatestByType ==
    (BDone /\ PrintedBlock) =>
        /\ response.code = 200
        /\ response.body.last_full_backup = LatestStop(PrintedBackups, "full")
        /\ response.body.last_diff_backup = LatestStop(PrintedBackups, "diff")
        /\ \A p \in Permutations(1..Len(PrintedBackups)) :
              LET other == StanzaReport([backup |-> Permuted(PrintedBackups, p)])
              IN  /\ other.last_full_backup = response.body.last_full_backup
                  /\ other.last_diff_backup = response.body.last_diff_backup

\* a later full backup printed before an earlier one, next to an entry of another kind
C4_Witness ==
    /\ BDone
    /\ PrintedBlock
    /\ Len(PrintedBackups) >= 2
    /\ PrintedBackups[1] = BaseEntry("full", MaxTime)
    /\ PrintedBackups[2] = BaseEntry("full", 0)
    /\ response.body.last_full_backup = Some(Datetime(MaxTime))
    /\ response.body.last_diff_backup = None

\* d.get(k1, {}).get(k2) as an Optional, read off the printed entry
Nested(entry, k1, k2) ==
    IF k1 \in DOMAIN entry /\ k2 \in DOMAIN entry[k1] THEN Some(entry[k1][k2]) ELSE None

\* C5: with exit 0 and a non-empty JSON array, entries lacking label, type,
\* timestamp, timestamp.start, timestamp.stop, info, info.size, info.repository or
\* info.repository.size are tolerated: the answer is 200, the backups list has one
\* record per entry in the order printed, a missing label or type reads "unknown"
\* and a missing timestamp or size is absent.
C5_MissingKeys ==
    (BDone /\ PrintedBlock) =>
        /\ response.code = 200
        /\ Len(response.body.backups) = Len(PrintedBackups)
        /\ \A i \in 1..Len(PrintedBackups) :
              LET entry == PrintedBackups[i]
                  rec == response.body.backups[i]
              IN  /\ rec.label = IF "label" \in DOMAIN entry THEN entry.label ELSE "unknown"
                  /\ rec.type = IF "type" \in DOMAIN entry THEN entry.type ELSE "unknown"
                  /\ rec.start_time =
                        IF Nested(entry, "timestamp", "start") = None THEN None
                        ELSE Some(Datetime(entry.timestamp.start))
                  /\ rec.stop_time =
                        IF Nested(entry, "timestamp", "stop") = None THEN None
                        ELSE Some(Datetime(entry.timestamp.stop))
                  /\ rec.size_bytes = Nested(entry, "info", "size")
                  /\ rec.database_size_bytes =
                        IF "info" \in DOMAIN entry /\ "repository" \in DOMAIN entry.info
                        THEN GetOpt(entry.info.repository, "size") ELSE None

\* an entry with no key at all printed before a complete one
C5_Witness ==
    /\ BDone
    /\ PrintedBlock
    /\ Len(PrintedBackups) = 2
    /\ PrintedBackups[1] = EmptyDict
    /\ PrintedBackups[2] = BaseEntry("diff", 0)
    /\ response.code = 200
    /\ response.body.backups[1].label = "unknown"
    /\ response.body.backups[2].label = "20250115-120000F"

\* the backup lists and archive lists a second run may print in place of the first
OtherBackupLists == Optional(ShortBackupLists)

OtherArchiveLists == Optional(ArchiveLists)

\* the tool's behaviour with the contents of the backup and archive lists replaced
WithContents(t, bk, ar) ==
    IF t.kind = "exit" /\ t.stdout.text = "json" /\ t.stdout.value.t = "array"
          /\ t.stdout.value.items # << >>
    THEN [t EXCEPT !.stdout.value.items[1] =
             Block(GetOpt(@, "status"), bk, ar)]
    ELSE t

\* C6: the status depends on the subprocess outcome and on the payload's top-level
\* shape and status code only: a run that differs from this one in the contents of
\* the backup list or of the archive list only returns the same status.
C6_StatusIgnoresRecords ==
    BDone =>
        \A bk \in OtherBackupLists, ar \in OtherArchiveLists :
            LET other == get_backup_status(subprocess_run(WithContents(tool, bk, ar)))
            IN  /\ other.code = response.code
                /\ response.code = 200 => other.body.status = response.body.status

C6_Witness ==
    /\ BDone
    /\ PrintedBlock
    /\ PrintedCode = 0
    /\ PrintedBackups = << >>
    /\ "archive" \notin DOMAIN PrintedStanza
    /\ response.body.status = "ok"

(***************************************************************************)
(* The server: main.py (lifespan), db/connection.py (the pool) and the     *)
(* handlers that use the database, each advancing from one await to the    *)
(* next.                                                                   *)
(***************************************************************************)
\* requests handled concurrently
NReq == 2
\* connections a pool lends at the same time (the setting db_pool_max_size)
PoolMaxSize == 1

Reqs == 1..NReq

\* _pool is None
NoPool == 0

PoolIds == 1..(NReq + 1)

Kinds == {"ready", "metrics", "update_item", "backups"}

\* ItemUpdate bodies: no field set, or some field set
Patches == {"empty", "fields"}

\* what the executable does for the GET /backups requests of the server
ToolSamples ==
    {ToolNotFound, ToolTimeout, ToolExit(1, StdoutEmpty, << "e" >>),
     ToolExit(0, StdoutGarbage, << >>), ToolExit(0, StdoutJson(JsonNumber(5)), << >>),
     ToolExit(0, StdoutJson(JsonArray(<< SampleBlock >>)), << >>)}

\* a request slot: the handler (kind), the with-block it is in (stage), the await
\* it is suspended at (pc), its local pool, whether it holds a connection (conn),
\* the statement it awaits (q), what the environment did to it (why), and counts of
\* the statements or subprocess runs it issued (sent), of the awaited calls that
\* failed (fails) and of its responses
IdleReq ==
    [kind |-> "none", stage |-> "none", pc |-> "idle", patch |-> "none",
     lpool |-> NoPool, conn |-> FALSE, q |-> 0, recovery |-> FALSE, why |-> "none",
     sent |-> 0, fails |-> 0, responses |-> 0, resp |-> NoResponse]

SInit ==
    /\ lifespan = "startup"
    /\ pool = NoPool
    /\ created = 0
    /\ open = {}
    /\ inuse = [p \in PoolIds |-> 0]
    /\ req = [r \in Reqs |-> IdleReq]

\* get_pool: the test "if _pool is None" decides whether create_pool is awaited
MustCreate(p) == p = NoPool

(* ---- main.py: lifespan ---- *)
\* Startup: await get_pool()
StartupGetPool ==
    /\ lifespan = "startup"
    /\ lifespan' = IF MustCreate(pool) THEN "startup_creating" ELSE "serving"
    /\ UNCHANGED << pool, created, open, inuse, req >>
    /\ UNCHANGED << bvars, mvars, ivars >>

\* create_pool returned a pool: _pool = ...; "Database connection pool initialized"
StartupCreated ==
    /\ lifespan = "startup_creating"
    /\ created' = created + 1
    /\ open' = open \cup {created + 1}
    /\ pool' = created + 1
    /\ lifespan' = "serving"
    /\ UNCHANGED << inuse, req >>
    /\ UNCHANGED << bvars, mvars, ivars >>

\* create_pool raised: the warning is printed and the application serves anyway
StartupFailed ==
    /\ lifespan = "startup_creating"
    /\ lifespan' = "serving"
    /\ UNCHANGED << pool, created, open, inuse, req >>
    /\ UNCHANGED << bvars, mvars, ivars >>

\* Shutdown, once no request is in flight: await close_pool()
Shutdown ==
    /\ lifespan = "serving"
    /\ \A r \in Reqs : req[r].pc \in {"idle", "done"}
    /\ lifespan' = IF pool # NoPool THEN "closing" ELSE "stopped"
    /\ UNCHANGED << pool, created, open, inuse, req >>
    /\ UNCHANGED << bvars, mvars, ivars >>

\* _pool.close() returned: _pool = None
PoolClosed ==
    /\ lifespan = "closing"
    /\ open' = open \ {pool}
    /\ pool' = NoPool
    /\ lifespan' = "stopped"
    /\ UNCHANGED << created, inuse, req >>
    /\ UNCHANGED << bvars, mvars, ivars >>

(* ---- the responses of the handlers ---- *)
\* raise HTTPException(status_code=..., detail=...): the body carries the detail
HTTPException(code, detail) == Http(code, [detail |-> detail])

ReadyResponse(status, database) ==
    [status |-> status, database |-> database, timestamp |-> "now"]

\* health.py: db_status after the try block
DbStatus(why) ==
    CASE why = "one" -> << "connected" >>
      [] why = "other" -> << "error" >>
      [] OTHER -> << "error: ", why >>

\* health.py: from overall_status to the end of readiness_check
ReadyAnswer(db_status) ==
    LET overall_status == IF db_status = << "connected" >> THEN "ready" ELSE "not_ready"
    IN  IF overall_status = "not_ready"
        THEN HTTPException(503, ReadyResponse(overall_status, db_status))
        ELSE Http(200, ReadyResponse(overall_status, db_status))

\* the answer of a handler that ran to its end; why says what its last statement returned
Answer(kind, why) ==
    CASE kind = "ready" -> ReadyAnswer(DbStatus(why))
      [] kind = "metrics" -> Http(200, [model |-> "MetricsResponse"])
      [] kind = "update_item" /\ why = "empty_patch" ->
           HTTPException(400, << "No fields to update" >>)
      [] kind = "update_item" /\ why = "no_row" ->
           HTTPException(404, << "Item ", "item_id", " not found" >>)
      [] OTHER -> Http(200, [model |-> "Item"])

\* the answer when get_pool, acquire or a statement raised
AnswerRaised(kind, why) ==
    CASE kind = "ready" -> ReadyAnswer(DbStatus(why))
      [] kind = "metrics" ->
           HTTPException(500, << "Failed to retrieve metrics: ", why >>)
      [] OTHER -> Http(500, [error |-> "Internal Server Error"])

(* ---- the steps of a request ---- *)
FirstStage(kind) == IF kind = "update_item" THEN "ensure" ELSE "main"

\* statements awaited inside the with-block
Statements(kind, stage, recovery) ==
    CASE kind = "ready" -> 1
      [] kind = "metrics" -> IF recovery THEN 5 ELSE 4
      [] kind = "update_item" /\ stage = "ensure" -> 2
      [] OTHER -> 1

\* the routed handler starts
Arrive(r) ==
    /\ lifespan = "serving"
    /\ req[r].pc = "idle"
    /\ \E k \in Kinds, pt \in Patches :
          /\ (k # "update_item" => pt = "empty")
          /\ req' = [req EXCEPT ![r] =
                 [IdleReq EXCEPT !.kind = k, !.stage = FirstStage(k),
                                 !.patch = IF k = "update_item" THEN pt ELSE "none",
                                 !.pc = IF k = "backups" THEN "run" ELSE "start"]]
    /\ UNCHANGED << lifespan, pool, created, open, inuse >>
    /\ UNCHANGED << bvars, mvars, ivars >>

\* the request ends with the answer a; holding says whether it still holds its connection
Finish(rq, a, holding) ==
    [rq EXCEPT !.pc = "done", !.conn = holding, !.resp = a, !.responses = @ + 1]

\* get_pool up to its first await
GetPool(r) ==
    /\ req[r].pc = "start"
    /\ req' = [req EXCEPT ![r] =
           IF MustCreate(pool) THEN [@ EXCEPT !.pc = "creating"]
           ELSE [@ EXCEPT !.pc = "acquiring", !.lpool = pool]]
    /\ UNCHANGED << lifespan, pool, created, open, inuse >>
    /\ UNCHANGED << bvars, mvars, ivars >>

\* create_pool returned: _pool = ...; return _pool; then pool.acquire() is awaited
CreatePoolOk(r) ==
    /\ req[r].pc = "creating"
    /\ created' = created + 1
    /\ open' = open \cup {created + 1}
    /\ pool' = created + 1
    /\ req' = [req EXCEPT ![r] =
           [@ EXCEPT !.pc = "acquiring", !.lpool = created + 1]]
    /\ UNCHANGED << lifespan, inuse >>
    /\ UNCHANGED << bvars, mvars, ivars >>

\* create_pool raised
CreatePoolFails(r) ==
    /\ req[r].pc = "creating"
    /\ req' = [req EXCEPT ![r] =
           Finish([@ EXCEPT !.fails = @ + 1, !.why = "pool"],
                  AnswerRaised(@.kind, "pool"), FALSE)]
    /\ UNCHANGED << lifespan, pool, created, open, inuse >>
    /\ UNCHANGED << bvars, mvars, ivars >>

\* pool.acquire() lent a connection: the first statement is awaited
AcquireOk(r) ==
    /\ req[r].pc = "acquiring"
    /\ inuse[req[r].lpool] < PoolMaxSize
    /\ inuse' = [inuse EXCEPT ![req[r].lpool] = @ + 1]
    /\ req' = [req EXCEPT ![r] =
           [@ EXCEPT !.pc = "query", !.conn = TRUE, !.q = 1, !.sent = @ + 1]]
    /\ UNCHANGED << lifespan, pool, created, open >>
    /\ UNCHANGED << bvars, mvars, ivars >>

\* pool.acquire() raised
AcquireFails(r) ==
    /\ req[r].pc = "acquiring"
    /\ req' = [req EXCEPT ![r] =
           Finish([@ EXCEPT !.fails = @ + 1, !.why = "acquire"],
                  AnswerRaised(@.kind, "acquire"), FALSE)]
    /\ UNCHANGED << lifespan, pool, created, open, inuse >>
    /\ UNCHANGED << bvars, mvars, ivars >>

\* a with-block that gives the connection back on a normal exit only
HeldAfterExitLeaky(raised) == raised

\* the handler's with-block nested inside the one of ensure_table_exists: the first
\* connection is kept when the block ends normally
HeldAfterExitNested(raised) == ~raised

\* whether the connection is still held after the with-block was left
HeldAfterExit(raised) == FALSE

\* the pool's count once request rq left its with-block
PutBack(rq, raised) ==
    IF HeldAfterExit(raised) THEN inuse ELSE [inuse EXCEPT ![rq.lpool] = @ - 1]

\* what the last statement of a with-block can return
Outcomes(rq) ==
    CASE rq.kind = "ready" -> {"one", "other"}
      [] rq.kind = "update_item" /\ rq.stage = "main" -> {"row", "no_row"}
      [] OTHER -> {"ok"}

\* a statement returned and the next one is awaited; for get_metrics the fourth
\* statement returned a true recovery flag when a fifth one follows
StatementOk(r) ==
    /\ req[r].pc = "query"
    /\ LET rec == req[r].kind = "metrics" /\ req[r].q = 4
       IN  /\ req[r].q < Statements(req[r].kind, req[r].stage, rec)
           /\ req' = [req EXCEPT ![r] =
                  [@ EXCEPT !.q = @ + 1, !.recovery = rec, !.sent = @ + 1]]
    /\ UNCHANGED << lifespan, pool, created, open, inuse >>
    /\ UNCHANGED << bvars, mvars, ivars >>

\* the last statement of ensure_table_exists returned: the connection goes back,
\* then update_item builds its query, or answers 400 when no field is set
EnsureDone(r) ==
    /\ req[r].pc = "query"
    /\ req[r].stage = "ensure"
    /\ req[r].q = Statements(req[r].kind, "ensure", FALSE)
    /\ inuse' = PutBack(req[r], FALSE)
    /\ req' = [req EXCEPT ![r] =
           IF @.patch = "empty"
           THEN Finish([@ EXCEPT !.why = "empty_patch"],
                       Answer(@.kind, "empty_patch"), HeldAfterExit(FALSE))
           ELSE [@ EXCEPT !.stage = "main", !.pc = "start", !.q = 0,
                          !.conn = HeldAfterExit(FALSE)]]
    /\ UNCHANGED << lifespan, pool, created, open >>
    /\ UNCHANGED << bvars, mvars, ivars >>

\* the last statement of the handler returned: the connection goes back and the
\* handler answers
HandlerDone(r) ==
    /\ req[r].pc = "query"
    /\ req[r].stage = "main"
    /\ req[r].q = Statements(req[r].kind, "main", req[r].recovery)
    /\ inuse' = PutBack(req[r], FALSE)
    /\ \E o \in Outcomes(req[r]) :
          req' = [req EXCEPT ![r] =
              Finish([@ EXCEPT !.why = o], Answer(@.kind, o), HeldAfterExit(FALSE))]
    /\ UNCHANGED << lifespan, pool, created, open >>
    /\ UNCHANGED << bvars, mvars, ivars >>

\* a handler that issues the statement again when it raised
OnFailureRetry(kind) == "retry"

\* where control goes when an awaited statement raised: out of the handler
OnFailure(kind) == "raise"

\* a statement raised: the with-block is left by the exception, the connection goes
\* back, and the handler (or the framework) answers
StatementRaises(r) ==
    /\ req[r].pc = "query"
    /\ IF OnFailure(req[r].kind) = "raise"
       THEN /\ inuse' = PutBack(req[r], TRUE)
            /\ req' = [req EXCEPT ![r] =
                   Finish([@ EXCEPT !.fails = @ + 1, !.why = "query"],
                          AnswerRaised(@.kind, "query"), HeldAfterExit(TRUE))]
       ELSE /\ inuse' = inuse
            /\ req' = [req EXCEPT ![r] = [@ EXCEPT !.fails = @ + 1, !.sent = @ + 1]]
    /\ UNCHANGED << lifespan, pool, created, open >>
    /\ UNCHANGED << bvars, mvars, ivars >>

\* subprocess.run raised or the tool exited with an error
RunFailed(res) == res.raised # "" \/ res.returncode # 0

\* GET /backups: the subprocess runs and the handler answers
BackupsStep(r) ==
    /\ req[r].pc = "run"
    /\ \E t \in ToolSamples :
          LET res == subprocess_run(t)
              ran == [req[r] EXCEPT !.sent = @ + 1, !.why = t.kind,
                                    !.fails = IF RunFailed(res) THEN @ + 1 ELSE @]
          IN  req' = [req EXCEPT ![r] =
                  IF AfterRun(res) = "translate"
                  THEN Finish(ran, get_backup_status(res), FALSE)
                  ELSE ran]
    /\ UNCHANGED << lifespan, pool, created, open, inuse >>
    /\ UNCHANGED << bvars, mvars, ivars >>

SNext ==
    \/ StartupGetPool
    \/ StartupCreated
    \/ StartupFailed
    \/ Shutdown
    \/ PoolClosed
    \/ \E r \in Reqs :
          \/ Arrive(r)
          \/ GetPool(r)
          \/ CreatePoolOk(r)
          \/ CreatePoolFails(r)
          \/ AcquireOk(r)
          \/ AcquireFails(r)
          \/ StatementOk(r)
          \/ StatementRaises(r)
          \/ EnsureDone(r)
          \/ HandlerDone(r)
          \/ BackupsStep(r)

(***************************************************************************)
(* get_metrics (metrics.py): one request with the answers of the database  *)
(* as its input.  The handler borrows a connection, awaits four or five    *)
(* queries, computes the two ratios and builds the MetricsResponse; all of *)
(* it is inside one try block.  Percentages are kept in hundredths of a    *)
(* percent, the precision round(x, 2) leaves.                              *)
(***************************************************************************)
\* largest count the database reports (connections, blocks, bytes)
MaxStat == 2

Stats == 0..MaxStat

\* the queries in the order get_metrics awaits them
Queries ==
    << "pg_database_size", "connections", "pg_stat_database", "pg_is_in_recovery",
       "replication_lag" >>

\* the row of the connections query: count(*) and the max_connections setting
ConnRows ==
    {[active_connections |-> Some(a), max_connections |-> m] :
        a \in Stats, m \in Optional(Stats)}

\* the row of pg_stat_database for the current database, or no row
TxnRows ==
    Optional({[committed |-> Some(MaxStat), rolled_back |-> Some(0),
               blks_read |-> Some(rd), blks_hit |-> Some(h)] : rd \in Stats, h \in Stats})

\* where the request fails: nowhere, in pool.acquire(), in the k-th query, or in the
\* validation of the MetricsResponse
Failures == {"none", "acquire", "build"} \cup {Queries[k] : k \in 1..5}

\* what the database answers to one request
Answers ==
    [db_size : Optional({MaxStat}), conn_info : ConnRows, txn_stats : TxnRows,
     is_in_recovery : BOOLEAN, lag_result : Optional(Stats), fail : Failures]

\* the locals of get_metrics before the first query; replication_lag = None
NoneFetched ==
    [db_size |-> None, conn_info |-> None, txn_stats |-> None,
     is_in_recovery |-> FALSE, replication_lag |-> None]

\* the answers before the request has arrived
NoAnswers ==
    [db_size |-> None,
     conn_info |-> [active_connections |-> Some(0), max_connections |-> None],
     txn_stats |-> None, is_in_recovery |-> FALSE, lag_result |-> None, fail |-> "none"]

MInit ==
    /\ mpc = "idle"
    /\ answers = NoAnswers
    /\ fetched = NoneFetched
    /\ issued = << >>
    /\ mresponse = NoResponse

\* Python's "x or d" on a column that may be NULL
OrElse(x, d) == IF x = None \/ x = Some(0) THEN d ELSE x[1]

\* round(n / d * 100, 2) in hundredths of a percent (no ties for d < 32)
Percent(n, d) == (2 * 10000 * n + d) \div (2 * d)

\* metrics.py 63-66
cache_hit_ratio(txn_stats) ==
    LET blocks_read == OrElse(txn_stats.blks_read, 0)
        blocks_hit == OrElse(txn_stats.blks_hit, 0)
        total_blocks == blocks_read + blocks_hit
    IN  IF total_blocks > 0 THEN Percent(blocks_hit, total_blocks) ELSE 10000

\* metrics.py 69-71
conn_usage(conn_info) ==
    LET active == OrElse(conn_info.active_connections, 0)
        max_conn == OrElse(conn_info.max_connections, 100)
    IN  IF max_conn > 0 THEN Percent(active, max_conn) ELSE 0

\* metrics.py 73-86, from the locals f
MetricsResponse(f) ==
    [database_size_bytes |-> OrElse(f.db_size, 0),
     active_connections |-> OrElse(f.conn_info[1].active_connections, 0),
     max_connections |-> OrElse(f.conn_info[1].max_connections, 100),
     connection_usage_percent |-> conn_usage(f.conn_info[1]),
     transactions_committed |-> OrElse(f.txn_stats[1].committed, 0),
     transactions_rolled_back |-> OrElse(f.txn_stats[1].rolled_back, 0),
     blocks_read |-> OrElse(f.txn_stats[1].blks_read, 0),
     blocks_hit |-> OrElse(f.txn_stats[1].blks_hit, 0),
     cache_hit_ratio |-> cache_hit_ratio(f.txn_stats[1]),
     replication_lag_bytes |-> f.replication_lag,
     is_in_recovery |-> f.is_in_recovery,
     timestamp |-> "now"]

\* except Exception as e: raise HTTPException(500, "Failed to retrieve metrics: ...")
MetricsFailed(e) == HTTPException(500, << "Failed to retrieve metrics: ", e >>)

\* a replica is asked for its lag whatever pg_is_in_recovery() returned
AskLagAlways(is_in_recovery) == TRUE

\* metrics.py 52: if is_in_recovery
AskLag(is_in_recovery) == is_in_recovery

\* the handler starts; the database is in one of the states of Answers
MetricsArrive ==
    /\ mpc = "idle"
    /\ answers' \in Answers
    /\ mpc' = "acquire"
    /\ UNCHANGED << fetched, issued, mresponse >>
    /\ UNCHANGED << bvars, svars, ivars >>

\* async with get_connection() as conn
MetricsAcquire ==
    /\ mpc = "acquire"
    /\ IF answers.fail = "acquire"
       THEN /\ mpc' = "done"
            /\ mresponse' = MetricsFailed("acquire")
       ELSE /\ mpc' = "query"
            /\ UNCHANGED mresponse
    /\ UNCHANGED << answers, fetched, issued >>
    /\ UNCHANGED << bvars, svars, ivars >>

\* the locals once query k returned
Fetch(f, k) ==
    CASE k = 1 -> [f EXCEPT !.db_size = answers.db_size]
      [] k = 2 -> [f EXCEPT !.conn_info = Some(answers.conn_info)]
      [] k = 3 -> [f EXCEPT !.txn_stats = answers.txn_stats]
      [] k = 4 -> [f EXCEPT !.is_in_recovery = answers.is_in_recovery]
      [] OTHER -> [f EXCEPT !.replication_lag = answers.lag_result]

\* the next query is awaited: it raises, or it returns and the handler goes on to
\* the next one, or to the computation after the last one
MetricsQuery ==
    /\ mpc = "query"
    /\ LET k == Len(issued) + 1
       IN  /\ issued' = Append(issued, Queries[k])
           /\ IF answers.fail = Queries[k]
              THEN /\ mpc' = "done"
                   /\ mresponse' = MetricsFailed(Queries[k])
                   /\ UNCHANGED fetched
              ELSE /\ fetched' = Fetch(fetched, k)
                   /\ mpc' = IF k < 4 \/ (k = 4 /\ AskLag(answers.is_in_recovery))
                             THEN "query" ELSE "build"
                   /\ UNCHANGED mresponse
    /\ UNCHANGED answers
    /\ UNCHANGED << bvars, svars, ivars >>

\* metrics.py 63-86: subscripting a missing row raises TypeError, the validation of
\* the response may raise, and otherwise the response is returned
MetricsBuild ==
    /\ mpc = "build"
    /\ mpc' = "done"
    /\ mresponse' =
          IF fetched.txn_stats = None THEN MetricsFailed("TypeError")
          ELSE IF answers.fail = "build" THEN MetricsFailed("ValidationError")
          ELSE Http(200, MetricsResponse(fetched))
    /\ UNCHANGED << answers, fetched, issued >>
    /\ UNCHANGED << bvars, svars, ivars >>

MNext ==
    \/ MetricsArrive
    \/ MetricsAcquire
    \/ MetricsQuery
    \/ MetricsBuild

(***************************************************************************)
(* The items handlers (items.py).  The table is a function from the ids of *)
(* its rows to the rows; items_id_seq is the counter serial; now is the    *)
(* clock datetime.now(UTC) reads.  Column values are integers: names,      *)
(* descriptions and prices are drawn from ranges that do not meet, so that *)
(* a value bound to the wrong column shows; a request carries its price in *)
(* thousandths and the DECIMAL(10, 2) column keeps hundredths; is_active   *)
(* is 0 or 1.  A request takes two steps: it starts (ensure_table_exists   *)
(* runs and update_item builds its query), then its statement runs in the  *)
(* database, atomically, and the handler answers.                          *)
(***************************************************************************)
\* rows in the table when the server starts
MaxRows == 2

\* the ids the requests name: those of the stored rows and one more
Ids == 1..(MaxRows + 1)

\* the fields of ItemUpdate in the order update_item tests them
Fields == << "name", "description", "price", "is_active" >>

FieldSet == {Fields[k] : k \in 1..Len(Fields)}

\* the value a PUT body carries for a field that is not null
PatchValue == [name |-> 12, description |-> 22, price |-> 2004, is_active |-> 0]

\* the JSON bodies of PUT: any set of fields, each one null or a value
Bodies ==
    UNION {{[f \in S |-> IF f \in N THEN None ELSE Some(PatchValue[f])] : N \in SUBSET S} :
              S \in SUBSET FieldSet}

\* the PUT bodies of the concurrent requests
SamplePatches ==
    {[f \in {"name"} |-> Some(PatchValue[f])],
     [f \in {"price", "is_active"} |-> Some(PatchValue[f])]}

\* the JSON bodies of POST
CreateBodies ==
    {[f \in {"name", "price"} |-> Some(IF f = "name" THEN 11 ELSE 1004)],
     [f \in FieldSet |-> Some(PatchValue[f])]}

\* schemas.py 13-23: description defaults to None and is_active to True
ItemCreate(body) ==
    [name |-> body["name"][1],
     description |-> Get(body, "description", None),
     price |-> body["price"][1],
     is_active |-> IF "is_active" \in DOMAIN body THEN body["is_active"][1] ELSE 1]

\* schemas.py 26-31: every field defaults to None
ItemUpdate(body) == [f \in FieldSet |-> Get(body, f, None)]

\* a float stored in a DECIMAL(10, 2) column: thousandths rounded to hundredths
ToNumeric(p) == (p + 5) \div 10

\* the value a column takes from a bound parameter
ToColumn(col, v) ==
    CASE col = "price" -> ToNumeric(v)
      [] col = "description" -> Some(v)
      [] OTHER -> v

\* a row stored before the server started
StoredRow(i) ==
    [id |-> i, name |-> 10, description |-> None, price |-> 50, is_active |-> 1,
     created_at |-> 0, updated_at |-> 0]

\* Item(**dict(row))
Item(row) ==
    [id |-> row.id, name |-> row.name, description |-> row.description,
     price |-> row.price, is_active |-> row.is_active,
     created_at |-> row.created_at, updated_at |-> row.updated_at]

\* the query of update_item: the assignments with their placeholders, the values,
\* and the placeholder of the WHERE clause
NoPlan == [update_fields |-> << >>, values |-> << >>, where |-> 0]

\* a builder that gives every assignment the placeholder $1
SameParam(param_count) == param_count

\* param_count += 1
NextParam(param_count) == param_count + 1

\* items.py 133-151: one "if item.<field> is not None" block
AppendField(st, col, v) ==
    IF v # None
    THEN [update_fields |-> Append(st.update_fields, [col |-> col, param |-> st.param_count]),
          values |-> Append(st.values, v[1]),
          param_count |-> NextParam(st.param_count)]
    ELSE st

\* items.py 129-151: the four blocks in order
RECURSIVE FieldsOf(_, _)
FieldsOf(item, k) ==
    IF k = 0 THEN [update_fields |-> << >>, values |-> << >>, param_count |-> 1]
    ELSE AppendField(FieldsOf(item, k - 1), Fields[k], item[Fields[k]])

\* an update_item that goes on without any field
NoFieldsNever(update_fields) == FALSE

\* items.py 153: if not update_fields
NoFields(update_fields) == update_fields = << >>

\* items.py 156-167: updated_at and the item id are appended
BuildUpdate(item, item_id, t) ==
    LET st == FieldsOf(item, Len(Fields))
        last == AppendField(st, "updated_at", Some(t))
    IN  [update_fields |-> last.update_fields,
         values |-> Append(last.values, item_id),
         where |-> last.param_count]

\* the row after the assignments 1..k of the SET clause
RECURSIVE Assign(_, _, _)
Assign(row, plan, k) ==
    IF k = 0 THEN row
    ELSE LET a == plan.update_fields[k]
         IN  [Assign(row, plan, k - 1) EXCEPT ![a.col] = ToColumn(a.col, plan.values[a.param])]

\* UPDATE items SET ... WHERE id = $n
ExecUpdate(tbl, plan) ==
    LET id == plan.values[plan.where]
    IN  IF id \in DOMAIN tbl
        THEN [tbl EXCEPT ![id] = Assign(@, plan, Len(plan.update_fields))]
        ELSE tbl

\* an INSERT that lets the column default NOW() fill updated_at
InsertRowDefaultNow(id, item, t) ==
    [id |-> id, name |-> item.name, description |-> item.description,
     price |-> ToNumeric(item.price), is_active |-> item.is_active,
     created_at |-> t, updated_at |-> t + 1]

\* INSERT INTO items ... VALUES ($1, $2, $3, $4, $5, $5) with the id nextval gave
InsertRow(id, item, t) ==
    [id |-> id, name |-> item.name, description |-> item.description,
     price |-> ToNumeric(item.price), is_active |-> item.is_active,
     created_at |-> t, updated_at |-> t]

\* the command tag conn.execute returns for DELETE
DeleteTag(n) == << "DELETE", n >>

\* a test against the tag of one deleted row
NothingDeletedSwapped(tag) == tag = DeleteTag(1)

\* items.py 190: result == "DELETE 0"
NothingDeleted(tag) == tag = DeleteTag(0)

NotFound(item_id) == HTTPException(404, << "Item ", item_id, " not found" >>)

\* a request slot of the items handlers: where the handler is (pc), its input, the
\* query update_item built, the call that raised, and the answer
IdleItem ==
    [pc |-> "idle", op |-> "none", id |-> 0, body |-> EmptyDict, plan |-> NoPlan,
     raised |-> "none", resp |-> NoResponse]

\* the table with its first n rows
Stored(n) == [i \in 1..n |-> StoredRow(i)]

IInit ==
    /\ table = Stored(MaxRows)
    /\ serial = MaxRows
    /\ now = 1
    /\ ireq = [r \in Reqs |-> IdleItem]

\* the requests of the concurrent clients
Inputs ==
    {[op |-> "create", id |-> 0, body |-> b] : b \in CreateBodies}
    \cup {[op |-> o, id |-> i, body |-> EmptyDict] : o \in {"get", "delete"}, i \in Ids}
    \cup {[op |-> "update", id |-> i, body |-> b] : i \in Ids, b \in SamplePatches}

\* every PUT request
UpdateInputs == {[op |-> "update", id |-> i, body |-> b] : i \in Ids, b \in Bodies}

\* the handler of request r starts on the input inp: ensure_table_exists runs (it
\* raises when the pool or the database fails); update_item then builds its query,
\* reading the clock, or answers 400; then the handler awaits its own connection
Start(r, inp, ensured) ==
    /\ ireq[r].pc = "idle"
    /\ LET rq == [IdleItem EXCEPT !.op = inp.op, !.id = inp.id, !.body = inp.body]
           st == FieldsOf(ItemUpdate(inp.body), Len(Fields))
       IN  IF ~ensured
           THEN /\ ireq' = [ireq EXCEPT ![r] =
                       [rq EXCEPT !.pc = "done", !.raised = "ensure",
                                  !.resp = AnswerRaised("items", "ensure")]]
                /\ UNCHANGED now
           ELSE IF inp.op # "update"
           THEN /\ ireq' = [ireq EXCEPT ![r] = [rq EXCEPT !.pc = "main"]]
                /\ UNCHANGED now
           ELSE IF NoFields(st.update_fields)
           THEN /\ ireq' = [ireq EXCEPT ![r] =
                       [rq EXCEPT !.pc = "done",
                                  !.resp = HTTPException(400, << "No fields to update" >>)]]
                /\ UNCHANGED now
           ELSE /\ ireq' = [ireq EXCEPT ![r] =
                       [rq EXCEPT !.pc = "main",
                                  !.plan = BuildUpdate(ItemUpdate(inp.body), inp.id, now)]]
                /\ now' = now + 1
    /\ UNCHANGED << table, serial >>

\* a request of the concurrent clients starts
ItemArrive(r) ==
    /\ \E inp \in Inputs, ensured \in BOOLEAN : Start(r, inp, ensured)
    /\ UNCHANGED << bvars, svars, mvars >>

\* a PUT request starts, alone
UpdateArrive(r) ==
    /\ \A o \in Reqs : ireq[o].pc = "idle"
    /\ \E inp \in UpdateInputs, ensured \in BOOLEAN : Start(r, inp, ensured)
    /\ UNCHANGED << bvars, svars, mvars >>

\* the statement of the handler runs and the handler answers
ItemStatement(r) ==
    /\ ireq[r].pc = "main"
    /\ LET rq == ireq[r]
           done(a) == [ireq EXCEPT ![r] = [@ EXCEPT !.pc = "done", !.resp = a]]
       IN  CASE rq.op = "create" ->
                  LET row == InsertRow(serial + 1, ItemCreate(rq.body), now)
                  IN  /\ serial' = serial + 1
                      /\ now' = now + 1
                      /\ table' = [i \in DOMAIN table \cup {row.id} |->
                                      IF i = row.id THEN row ELSE table[i]]
                      /\ ireq' = done(Http(201, Item(row)))
             [] rq.op = "get" ->
                  /\ ireq' = done(IF rq.id \in DOMAIN table
                                  THEN Http(200, Item(table[rq.id]))
                                  ELSE NotFound(rq.id))
                  /\ UNCHANGED << table, serial, now >>
             [] rq.op = "update" ->
                  LET id == rq.plan.values[rq.plan.where]
                  IN  /\ table' = ExecUpdate(table, rq.plan)
                      /\ ireq' = done(IF id \in DOMAIN table
                                      THEN Http(200, Item(table'[id]))
                                      ELSE NotFound(rq.id))
                      /\ UNCHANGED << serial, now >>
             [] OTHER ->
                  LET tag == DeleteTag(IF rq.id \in DOMAIN table THEN 1 ELSE 0)
                  IN  /\ table' = [i \in DOMAIN table \ {rq.id} |-> table[i]]
                      /\ ireq' = done(IF NothingDeleted(tag)
                                      THEN NotFound(rq.id)
                                      ELSE Http(204, << >>))
                      /\ UNCHANGED << serial, now >>
    /\ UNCHANGED << bvars, svars, mvars >>

\* the handler's acquire or its statement raises: the framework answers 500; a
\* failed INSERT may have taken a value of the sequence
ItemStatementRaises(r) ==
    /\ ireq[r].pc = "main"
    /\ ireq' = [ireq EXCEPT ![r] =
           [@ EXCEPT !.pc = "done", !.raised = "statement",
                    !.resp = AnswerRaised("items", "query")]]
    /\ \E taken \in {0, 1} :
          /\ taken = 1 => ireq[r].op = "create"
          /\ serial' = serial + taken
    /\ UNCHANGED << table, now >>
    /\ UNCHANGED << bvars, svars, mvars >>

\* concurrent requests on the items
INext ==
    \E r \in Reqs :
        \/ ItemArrive(r)
        \/ ItemStatement(r)
        \/ ItemStatementRaises(r)

\* one PUT request, on every body
UNext ==
    \E r \in Reqs :
        \/ UpdateArrive(r)
        \/ ItemStatement(r)
        \/ ItemStatementRaises(r)

(***************************************************************************)
(* The specifications.                                                     *)
(***************************************************************************)
Init == BInit /\ SInit /\ MInit /\ IInit

\* the translator alone, on every output of the tool
SpecBackups == Init /\ [][BNext]_vars

Next == SNext

\* the server
Spec == Init /\ [][Next]_vars

\* get_metrics alone, on every answer of the database
SpecMetrics == Init /\ [][MNext]_vars

\* the items handlers under concurrent requests
SpecItems == Init /\ [][INext]_vars

\* update_item on every body
SpecUpdate == Init /\ [][UNext]_vars

(***************************************************************************)
(* Properties of the server (checked under Spec).                          *)
(***************************************************************************)
\* C7: in every interleaving of the startup hook and of the requests that call
\* get_pool the pool is created at most once, also when several callers find it
\* absent at the same time, and after shutdown no created pool is left unclosed.
C7_PoolCreatedOnce ==
    /\ created <= 1
    /\ lifespan = "stopped" => open = {}

\* C8: a request that has answered holds no connection, whether it returned
\* normally, answered 400 or 404 or left by an exception of a statement; once no
\* request is in flight no connection is borrowed from any pool.
C8_ConnectionsReturned ==
    /\ \A r \in Reqs : req[r].responses > 0 => ~req[r].conn
    /\ \A p \in PoolIds : inuse[p] = Cardinality({r \in Reqs : req[r].conn /\ req[r].lpool = p})
    /\ (\A r \in Reqs : req[r].pc \in {"idle", "done"}) => \A p \in PoolIds : inuse[p] = 0

\* one request left update_item's own statement by an exception, another answered
\* 404, and nothing is borrowed
C8_Witness ==
    /\ \E r \in Reqs :
          /\ req[r].pc = "done"
          /\ req[r].kind = "update_item"
          /\ req[r].stage = "main"
          /\ req[r].why = "query"
          /\ req[r].resp.code = 500
    /\ \E r \in Reqs : req[r].pc = "done" /\ req[r].resp.code = 404
    /\ \A p \in PoolIds : inuse[p] = 0

\* the statements a handler issues when none fails
MostStatements(kind) ==
    CASE kind = "ready" -> 1
      [] kind = "metrics" -> 5
      [] kind = "update_item" -> 3
      [] kind = "backups" -> 1
      [] OTHER -> 0

\* C9: nothing is retried: a request of GET /backups runs the subprocess exactly
\* once whatever its outcome, a request sees at most one failed call and issues
\* nothing after it, and every request that ended produced exactly one response.
C9_NoRetry ==
    \A r \in Reqs :
        /\ req[r].fails <= 1
        /\ req[r].fails = 1 => req[r].pc = "done"
        /\ req[r].sent <= MostStatements(req[r].kind)
        /\ req[r].responses <= 1
        /\ req[r].pc = "done" => req[r].responses = 1
        /\ (req[r].pc = "done" /\ req[r].kind = "backups") => req[r].sent = 1

\* a statement of get_metrics failed and a run of the subprocess timed out
C9_Witness ==
    /\ \E r \in Reqs :
          /\ req[r].pc = "done"
          /\ req[r].kind = "metrics"
          /\ req[r].why = "query"
          /\ req[r].fails = 1
          /\ req[r].resp.code = 500
    /\ \E r \in Reqs :
          /\ req[r].pc = "done"
          /\ req[r].kind = "backups"
          /\ req[r].why = "timeout"
          /\ req[r].sent = 1

\* C10: GET /ready answers 200 with status ready and database connected exactly
\* when the pool was obtained, a connection acquired and the query returned 1;
\* otherwise it answers 503 with a body of the same shape {status, database,
\* timestamp}, status not_ready and a diagnostic database string.
C10_ReadyContract ==
    \A r \in Reqs :
        (req[r].pc = "done" /\ req[r].kind = "ready") =>
            IF req[r].why = "one"
            THEN /\ req[r].resp.code = 200
                 /\ req[r].resp.body = ReadyResponse("ready", << "connected" >>)
            ELSE /\ req[r].resp.code = 503
                 /\ DOMAIN req[r].resp.body = {"status", "database", "timestamp"}
                 /\ req[r].resp.body.status = "not_ready"
                 /\ req[r].resp.body.database # << "connected" >>

(***************************************************************************)
(* Properties of get_metrics (checked under SpecMetrics).                  *)
(***************************************************************************)
\* C11: in a 200 answer connection_usage_percent is active/max*100 when the
\* reported max_connections is positive, and 0 for every active count when the
\* reported max_connections is zero.
C11_ConnectionUsage ==
    (mpc = "done" /\ mresponse.code = 200) =>
        LET active == answers.conn_info.active_connections[1]
            max == answers.conn_info.max_connections
        IN  /\ (max # None /\ max # Some(0)) =>
                  mresponse.body.connection_usage_percent = Percent(active, max[1])
            /\ max = Some(0) => mresponse.body.connection_usage_percent = 0

\* the queries awaited so far
Issued == {issued[k] : k \in 1..Len(issued)}

\* some step of the request failed: the borrow, a query that was awaited, the
\* subscript of a missing statistics row, or the validation of the response
MetricsStepFailed ==
    \/ answers.fail = "acquire"
    \/ answers.fail \in Issued
    \/ /\ answers.fail \notin {"acquire"} \cup Issued
       /\ Len(issued) = (IF answers.is_in_recovery THEN 5 ELSE 4)
       /\ (answers.txn_stats = None \/ answers.fail = "build")

\* C12: get_metrics answers 500 when any step failed (the borrow, a query, a
\* missing statistics row, building the response) and 200 with the complete
\* metrics only when none did; the replication-lag query is awaited only when the
\* recovery flag is true, and replication_lag_bytes is None whenever it is false.
C12_MetricsAllOrNothing ==
    /\ mpc = "done" =>
          /\ mresponse.code \in {200, 500}
          /\ mresponse.code = 500 <=> MetricsStepFailed
          /\ mresponse.code = 500 => "detail" \in DOMAIN mresponse.body
          /\ mresponse.code = 200 =>
                /\ issued = SubSeq(Queries, 1, IF answers.is_in_recovery THEN 5 ELSE 4)
                /\ mresponse.body.database_size_bytes = OrElse(answers.db_size, 0)
                /\ mresponse.body.blocks_hit = OrElse(answers.txn_stats[1].blks_hit, 0)
                /\ mresponse.body.blocks_read = OrElse(answers.txn_stats[1].blks_read, 0)
                /\ mresponse.body.transactions_committed =
                       OrElse(answers.txn_stats[1].committed, 0)
                /\ mresponse.body.is_in_recovery = answers.is_in_recovery
                /\ answers.is_in_recovery =>
                       mresponse.body.replication_lag_bytes = answers.lag_result
                /\ ~answers.is_in_recovery => mresponse.body.replication_lag_bytes = None
    /\ "replication_lag" \in Issued => (answers.is_in_recovery /\ fetched.is_in_recovery)
    /\ ~fetched.is_in_recovery => fetched.replication_lag = None

\* on a primary whose pg_stat_database has no row for the database the four
\* queries return, the lag is not asked for, and the answer is 500
C12_Witness ==
    /\ mpc = "done"
    /\ answers.fail = "none"
    /\ answers.txn_stats = None
    /\ ~answers.is_in_recovery
    /\ answers.lag_result # None
    /\ Len(issued) = 4
    /\ mresponse.code = 500


(***************************************************************************)
(* Properties of update_item (checked under SpecUpdate).                   *)
(***************************************************************************)
\* the columns the SET clause of a built query assigns
Assigned(plan) == {plan.update_fields[k].col : k \in 1..Len(plan.update_fields)}

\* C13: the SET clause assigns exactly the fields present in the body, a field
\* present with the value null included, plus updated_at, and the answer is 400
\* only when no field is present.
C13_SetFromPresentFields ==
    \A r \in Reqs :
        ireq[r].op = "update" =>
            /\ ireq[r].resp.code = 400 => DOMAIN ireq[r].body = {}
            /\ ireq[r].plan # NoPlan =>
                  Assigned(ireq[r].plan) = DOMAIN ireq[r].body \cup {"updated_at"}

\* C14 as stated: a PUT with an empty body answers 400 whatever the state of the
\* database, and leaves the table as it was.
C14_EmptyBodyAlways400 ==
    \A r \in Reqs :
        (ireq[r].op = "update" /\ DOMAIN ireq[r].body = {}) =>
            /\ ireq[r].resp.code = 400
            /\ table = Stored(MaxRows)

\* C14: a PUT with an empty body answers 400 for every id, whether or not a row has
\* it, provided ensure_table_exists completed, and 500 when ensure_table_exists
\* raised; in both cases no UPDATE is built or awaited and the table is as it was.
C14_EmptyBody400AfterEnsure ==
    \A r \in Reqs :
        (ireq[r].op = "update" /\ DOMAIN ireq[r].body = {}) =>
            /\ ireq[r].pc = "done"
            /\ ireq[r].plan = NoPlan
            /\ ireq[r].raised \in {"none", "ensure"}
            /\ ireq[r].raised = "none" =>
                  ireq[r].resp = HTTPException(400, << "No fields to update" >>)
            /\ ireq[r].raised = "ensure" => ireq[r].resp.code = 500
            /\ table = Stored(MaxRows)
            /\ serial = MaxRows

\* ensure_table_exists completed and an empty PUT for a stored row was answered 400
C14_Witness ==
    \E r \in Reqs :
        /\ ireq[r].op = "update"
        /\ DOMAIN ireq[r].body = {}
        /\ ireq[r].id \in DOMAIN table
        /\ ireq[r].pc = "done"
        /\ ireq[r].resp.code = 400

\* the built query binds the k-th assignment to the k-th value, which is the value
\* the body carries for that column, ends with updated_at, and binds the last
\* placeholder, that of the WHERE clause, to the item id
BoundInOrder(rq) ==
    LET p == rq.plan
        n == Len(p.update_fields)
    IN  /\ n >= 2
        /\ \A k \in 1..n : p.update_fields[k].param = k
        /\ \A j, k \in 1..n : p.update_fields[j].col = p.update_fields[k].col => j = k
        /\ \A k \in 1..(n - 1) :
              /\ p.update_fields[k].col \in DOMAIN rq.body
              /\ rq.body[p.update_fields[k].col] = Some(p.values[k])
        /\ p.update_fields[n].col = "updated_at"
        /\ p.where = n + 1
        /\ Len(p.values) = n + 1
        /\ p.values[p.where] = rq.id

\* the UPDATE of request r ran and found its row: the fields the body does not
\* name, id and created_at keep their values, every value of the body is in its own
\* column, updated_at is the time the handler read, and the other rows are as before
UpdateFrame(r) ==
    LET rq == ireq[r]
        old == table[rq.id]
        new == table'[rq.id]
    IN  /\ DOMAIN table' = DOMAIN table
        /\ \A j \in DOMAIN table \ {rq.id} : table'[j] = table[j]
        /\ new.id = old.id
        /\ new.created_at = old.created_at
        /\ new.updated_at = rq.plan.values[Len(rq.plan.update_fields)]
        /\ \A f \in FieldSet \ DOMAIN rq.body : new[f] = old[f]
        /\ \A f \in DOMAIN rq.body :
              rq.body[f] # None => new[f] = ToColumn(f, rq.body[f][1])
        /\ ireq'[r].resp.body = Item(new)

\* C15: a PUT that answers 200 changes in its row only the fields of its body and
\* updated_at; id, created_at, the other fields and the other rows keep their
\* values; and each value is bound to its own column (the k-th placeholder to the
\* k-th value, the last one to the item id).
C15_UpdateChangesOnlySupplied ==
    /\ [](\A r \in Reqs : ireq[r].plan # NoPlan => BoundInOrder(ireq[r]))
    /\ [][\A r \in Reqs :
            (/\ ireq[r].op = "update"
             /\ ireq[r].pc = "main"
             /\ ireq'[r].pc = "done"
             /\ ireq'[r].resp.code = 200) => UpdateFrame(r)]_vars

\* a PUT of price and is_active for a stored row answered 200: the row has the new
\* price in hundredths and its old name, and the other rows are the stored ones
C15_Witness ==
    \E r \in Reqs :
        /\ ireq[r].op = "update"
        /\ DOMAIN ireq[r].body = {"price", "is_active"}
        /\ ireq[r].pc = "done"
        /\ ireq[r].resp.code = 200
        /\ table[ireq[r].id].price = ToNumeric(PatchValue.price)
        /\ table[ireq[r].id].is_active = PatchValue.is_active
        /\ table[ireq[r].id].name = StoredRow(ireq[r].id).name
        /\ table[ireq[r].id].updated_at > table[ireq[r].id].created_at
        /\ \A j \in DOMAIN table \ {ireq[r].id} : table[j] = StoredRow(j)

(***************************************************************************)
(* Properties of the items handlers (checked under SpecItems).             *)
(***************************************************************************)
\* request r has answered from its statement (not by an exception)
Answered(r) == ireq[r].pc = "done" /\ ireq[r].raised = "none"

\* C16: GET, PUT with a non-empty patch and DELETE answer 404 when no row has the
\* id and leave the table unchanged; DELETE answers 204 exactly when it removed a
\* row; of the DELETEs of one stored id that have answered (two, or more) exactly
\* one answers 204 and every other 404, and never do two DELETEs of one id both
\* answer 204.
C16_NotFoundAndDelete ==
    /\ [][\A r \in Reqs :
            (/\ ireq[r].op \in {"get", "update", "delete"}
             /\ ireq[r].pc = "main"
             /\ ireq'[r].pc = "done"
             /\ ireq'[r].raised = "none") =>
                /\ ireq[r].id \notin DOMAIN table =>
                      (ireq'[r].resp = NotFound(ireq[r].id) /\ table' = table)
                /\ ireq[r].op = "delete" =>
                      /\ ireq'[r].resp.code \in {204, 404}
                      /\ ireq'[r].resp.code = 204 <=>
                            (ireq[r].id \in DOMAIN table /\ ireq[r].id \notin DOMAIN table')
                      /\ \A j \in DOMAIN table \ {ireq[r].id} :
                            j \in DOMAIN table' /\ table'[j] = table[j]]_vars
    /\ [](\A i \in Ids :
            LET deleted == {r \in Reqs : ireq[r].op = "delete" /\ ireq[r].id = i /\ Answered(r)}
                removed == {r \in deleted : ireq[r].resp.code = 204}
            IN  /\ Cardinality(removed) <= 1
                /\ \A r \in deleted \ removed : ireq[r].resp.code = 404
                /\ (i \in DOMAIN Stored(MaxRows) /\ deleted # {}) => Cardinality(removed) = 1)

\* two DELETEs of the same stored id have answered, one 204 and the other 404
C16_Witness ==
    \E r1, r2 \in Reqs :
        /\ r1 # r2
        /\ ireq[r1].op = "delete" /\ ireq[r2].op = "delete"
        /\ ireq[r1].id = ireq[r2].id
        /\ ireq[r1].id \in DOMAIN Stored(MaxRows)
        /\ Answered(r1) /\ Answered(r2)
        /\ ireq[r1].resp.code = 204
        /\ ireq[r2].resp.code = 404
        /\ ireq[r1].id \notin DOMAIN table

\* a PUT or DELETE for the id has run its statement
Touched(id) ==
    \E r \in Reqs :
        /\ ireq[r].op \in {"update", "delete"}
        /\ ireq[r].id = id
        /\ Answered(r)

\* C17: a POST answers 201 with an id no row had and created_at = updated_at, and
\* stores that row; a GET for that id, with no update or delete of it, answers 200
\* with the same field values; the ids of two POSTs that answered 201 differ.
C17_CreateThenGet ==
    /\ [][\A r \in Reqs :
            (/\ ireq[r].op = "create"
             /\ ireq[r].pc = "main"
             /\ ireq'[r].pc = "done"
             /\ ireq'[r].raised = "none") =>
                LET b == ireq'[r].resp.body
                IN  /\ ireq'[r].resp.code = 201
                    /\ b.id \notin DOMAIN table
                    /\ b.id \in DOMAIN table'
                    /\ b.id > serial
                    /\ b.created_at = b.updated_at
                    /\ Item(table'[b.id]) = b
                    /\ \A j \in DOMAIN table : table'[j] = table[j]]_vars
    /\ [](\A r1, r2 \in Reqs :
            (/\ ireq[r1].op = "create" /\ Answered(r1)
             /\ ireq[r2].op = "get" /\ Answered(r2)
             /\ ireq[r2].id = ireq[r1].resp.body.id
             /\ ireq[r2].resp.code = 200
             /\ ~Touched(ireq[r2].id)) => ireq[r2].resp.body = ireq[r1].resp.body)
    /\ [](\A r1, r2 \in Reqs :
            (/\ r1 # r2
             /\ ireq[r1].op = "create" /\ Answered(r1)
             /\ ireq[r2].op = "create" /\ Answered(r2)) =>
                ireq[r1].resp.body.id # ireq[r2].resp.body.id)

\* a POST answered 201 and a GET for the id it returned answered 200 with the item
C17_Witness ==
    \E r1, r2 \in Reqs :
        /\ ireq[r1].op = "create" /\ Answered(r1)
        /\ ireq[r1].resp.code = 201
        /\ ireq[r2].op = "get" /\ Answered(r2)
        /\ ireq[r2].id = ireq[r1].resp.body.id
        /\ ireq[r2].resp.code = 200
        /\ ireq[r2].resp.body = ireq[r1].resp.body
        /\ ireq[r2].resp.body.price = ToNumeric(1004)


(***************************************************************************)
(* The server after a startup that created the pool, under its scheduling: *)
(* the event loop resumes every coroutine whose awaited call has           *)
(* completed, the statements terminate, and the pool hands a free          *)
(* connection to a caller that waits.  That acquire raises is possible but *)
(* never required.                                                         *)
(***************************************************************************)
\* the handlers that borrow connections
DbKinds == {"ready", "metrics", "update_item"}

\* a handler that borrows connections starts
ArriveDb(r) == Arrive(r) /\ req'[r].kind \in DbKinds

\* the steps the event loop owes to request r
Resume(r) ==
    \/ GetPool(r)
    \/ AcquireOk(r)
    \/ StatementOk(r)
    \/ StatementRaises(r)
    \/ EnsureDone(r)
    \/ HandlerDone(r)

PoolNext ==
    \/ StartupGetPool
    \/ StartupCreated
    \/ \E r \in Reqs :
          \/ ArriveDb(r)
          \/ GetPool(r)
          \/ AcquireOk(r)
          \/ AcquireFails(r)
          \/ StatementOk(r)
          \/ StatementRaises(r)
          \/ EnsureDone(r)
          \/ HandlerDone(r)

Fairness == \A r \in Reqs : WF_vars(Resume(r))

SpecFair == Init /\ [][PoolNext]_vars /\ Fairness

\* C18: a request holds no connection while it obtains the pool or waits for a
\* connection (ensure_table_exists gives its connection back before the handler
\* borrows its own; get_metrics and readiness_check borrow one), every pool lends
\* exactly one connection per holder, and a request that waits for a connection
\* eventually holds one, unless the acquire itself raised.
C18_NoConnectionDeadlock ==
    /\ [](\A r \in Reqs : req[r].pc \in {"start", "creating", "acquiring"} => ~req[r].conn)
    /\ [](\A p \in PoolIds :
            /\ inuse[p] <= PoolMaxSize
            /\ inuse[p] = Cardinality({r \in Reqs : req[r].conn /\ req[r].lpool = p}))
    /\ \A r \in Reqs :
          (req[r].pc = "acquiring") ~> (req[r].conn \/ req[r].why = "acquire")

\* update_item has given back the connection of ensure_table_exists and waits for
\* its own while the pool has lent all its connections to other requests
C18_Witness ==
    \E r \in Reqs :
        /\ req[r].kind = "update_item"
        /\ req[r].stage = "main"
        /\ req[r].pc = "acquiring"
        /\ ~req[r].conn
        /\ inuse[req[r].lpool] = PoolMaxSize

====
